---- MODULE Spec2Model ----
(***************************************************************************)
(* A model of the two HTTP services of the repository:                     *)
(*   - the Gateway  (src/public-app/app.py):  the /fetch proxy;            *)
(*   - the Render Service (src/admin-api/admin_api.py): POST /render and   *)
(*     POST /render/json.                                                  *)
(* Each handler is one action.  The request and the environment's answers  *)
(* (DNS, the upstream server, the filesystem) are the action's inputs; the *)
(* response and every side effect are its outputs.                         *)
(*                                                                         *)
(* Text is modelled concretely where the code inspects it: hostnames,      *)
(* schemes and content types are strings (lower-casing and substring tests *)
(* are computed character by character), IPv4 addresses are four octets    *)
(* (network membership is computed from the prefix length), and an HTML    *)
(* body or a template is a sequence of lexical tokens.                     *)
(***************************************************************************)
EXTENDS Integers, Sequences, FiniteSets, TLC

VARIABLES
    req,        \* the last /fetch request the Gateway handled
    env,        \* the environment's answers to that request (DNS, upstream)
    resp,       \* the Gateway's response to it
    sent,       \* the outbound HTTP requests issued while serving it
    rreq,       \* the last render request the Render Service handled
    renv,       \* the environment's answers to it (clock, filesystem)
    rresp,      \* the Render Service's response to it
    ctx,        \* the template context the handler built for it
    events,     \* what the handler did for it, in the order it did it
    log,        \* render_submissions.log: one entry per line
    status_file,  \* fake_flag_retrieved.txt: one entry per line
    insecure_env, \* the names templates have added to insecure_env.globals
    freq,       \* the last POST /feedback request the Gateway handled
    fenv,       \* the environment's answers to it (clock, filesystem)
    fresp,      \* the Gateway's response to it
    feedback_log  \* feedback.log: the text of the file

gwvars == <<req, env, resp, sent>>
rvars == <<rreq, renv, rresp, ctx, events, log, status_file, insecure_env>>
fbvars == <<freq, fenv, fresp, feedback_log>>

(***************************************************************************)
(* Python values                                                           *)
(***************************************************************************)
\* Python's None, where the model needs it beside strings.
None == "<None>"

UPPER == "ABCDEFGHIJKLMNOPQRSTUVWXYZ"
LOWER == "abcdefghijklmnopqrstuvwxyz"

\* str.lower() of one character.
UpperChars == {SubSeq(UPPER, i, i) : i \in 1..Len(UPPER)}
LowerOf ==
    [c \in UpperChars |->
        LET i == CHOOSE k \in 1..Len(UPPER) : SubSeq(UPPER, k, k) = c
        IN  SubSeq(LOWER, i, i)]
LowerChar(c) == IF c \in UpperChars THEN LowerOf[c] ELSE c

\* str.lower().
RECURSIVE lower(_)
lower(s) ==
    IF s = "" THEN ""
    ELSE LowerChar(SubSeq(s, 1, 1)) \o lower(SubSeq(s, 2, Len(s)))

\* Python's `s in t` for two strings: s is a substring of t.
StrIn(s, t) ==
    \E i \in 0..(Len(t) - Len(s)) : SubSeq(t, i + 1, i + Len(s)) = s

\* s.startswith(p)
StartsWith(s, p) == Len(s) >= Len(p) /\ SubSeq(s, 1, Len(p)) = p

(***************************************************************************)
(* Gateway configuration (app.py 15-27)                                    *)
(***************************************************************************)
\* An IPv4 address: its four octets.  v = 6 is an IPv6 address (the model
\* keeps only its last group, enough to tell the ones it uses apart).
Ip4(a, b, c, d) == [v |-> 4, o |-> <<a, b, c, d>>]
Ip6(g)          == [v |-> 6, o |-> <<0, 0, 0, g>>]

\* ipaddress.ip_network("a.b.c.d/len")
ip_network(a, b, c, d, len) == [o |-> <<a, b, c, d>>, len |-> len]

ALLOWED_NETWORKS == {
    ip_network(127, 0, 0, 0, 8),
    ip_network(10, 0, 0, 0, 8),
    ip_network(172, 16, 0, 0, 12),
    ip_network(192, 168, 0, 0, 16) }

ALLOWED_HOSTNAMES == {"res.cloudinary.com", "picsum.photos", "109.205.181.210"}

USER_AGENT == "CTF-Fetcher/1.0"

\* The literal of line 141, `("109.205.181.210")`: a parenthesised string,
\* not a one-element tuple.
ADMIN_IP_LITERAL == "109.205.181.210"

\* The netloc the admin rewrite installs (line 142) and the host of the
\* path-based proxy (line 136).
ADMIN_HOST == "admin_api"
ADMIN_PORT == "9000"

(***************************************************************************)
(* is_ip_allowed / resolve_hostname (app.py 35-49)                         *)
(***************************************************************************)
Min(a, b) == IF a <= b THEN a ELSE b
Max(a, b) == IF a >= b THEN a ELSE b

\* The number of bits of a len-bit prefix that fall in octet k (1..4).
PrefixBits(len, k) == Min(8, Max(0, len - 8 * (k - 1)))

\* `ip in net` of the ipaddress module: same version, same network prefix.
InNetwork(ip, net) ==
    /\ ip.v = 4
    /\ \A k \in 1..4 :
         LET drop == 2 ^ (8 - PrefixBits(net.len, k))
         IN  ip.o[k] \div drop = net.o[k] \div drop

\* Line 35-40.  getaddrinfo returns well-formed addresses, so the ValueError
\* branch is taken by none of them; an IPv6 address is in no IPv4 network.
is_ip_allowed(ip) == \E net \in ALLOWED_NETWORKS : InNetwork(ip, net)

\* What getaddrinfo answers for a numeric host without asking DNS
\* (inet_aton's reading: "109" is 0.0.0.109, "205.181" is 205.0.0.181).
NumericHosts == {"109.205.181.210", "109", "1", "205.181", "127.0.0.1"}
NumericAddress(h) ==
    CASE h = "109.205.181.210" -> Ip4(109, 205, 181, 210)
      [] h = "109"             -> Ip4(0, 0, 0, 109)
      [] h = "1"               -> Ip4(0, 0, 0, 1)
      [] h = "205.181"         -> Ip4(205, 0, 0, 181)
      [] h = "127.0.0.1"       -> Ip4(127, 0, 0, 1)

\* Line 43-49: the set of addresses of hostname; a failed lookup is the
\* empty list.  e.ips is DNS's answer for a name.
resolve_hostname(hostname, e) ==
    IF hostname \in NumericHosts THEN {NumericAddress(hostname)} ELSE e.ips

(***************************************************************************)
(* URLs: urllib.parse as the handlers use it                               *)
(*                                                                         *)
(* A URL string is kept as its syntactic parts: the scheme text before     *)
(* "://", the host text and the port text of the authority, and the path.  *)
(* ws: the string has surrounding whitespace; pct: it is percent-encoded   *)
(* once more (both are undone on line 139 before the string is parsed).    *)
(***************************************************************************)
Url(scheme, host, port, path) ==
    [scheme |-> scheme, host |-> host, port |-> port, path |-> path,
     ws |-> FALSE, pct |-> FALSE]

\* request.args.get("url") when the query has no url parameter.
NoUrl == [scheme |-> None, host |-> None, port |-> None, path |-> None,
          ws |-> FALSE, pct |-> FALSE]

\* The empty string.
EmptyUrl == Url("", "", "", "")

\* Python truthiness of a str: not None and not empty.
Truthy(u) == u # NoUrl /\ u # EmptyUrl

\* raw_url.strip() and unquote(...) of line 139.
strip(u)   == [u EXCEPT !.ws = FALSE]
unquote(u) == [u EXCEPT !.pct = FALSE]

\* urlparse(u).scheme: lower-cased.
UrlScheme(u) == lower(u.scheme)

\* urlparse(u) raises ValueError ("Invalid IPv6 URL"): a bracket is left open.
UrlParseRaises(u) ==
    /\ StartsWith(u.host, "[")
    /\ SubSeq(u.host, Len(u.host), Len(u.host)) # "]"

\* urlparse(u).hostname: lower-cased, without the brackets of an IPv6
\* literal, None without a host.
UrlHostname(u) ==
    IF u.host = "" THEN None
    ELSE IF StartsWith(u.host, "[") /\ Len(u.host) > 2
    THEN lower(SubSeq(u.host, 2, Len(u.host) - 1))
    ELSE lower(u.host)

DIGITS == "0123456789"
IsDigit(c) == \E i \in 1..Len(DIGITS) : SubSeq(DIGITS, i, i) = c
DigitValue(c) == (CHOOSE i \in 1..Len(DIGITS) : SubSeq(DIGITS, i, i) = c) - 1
IsDigits(s) == Len(s) > 0 /\ \A i \in 1..Len(s) : IsDigit(SubSeq(s, i, i))

\* int(s, 10) of a digit string.
RECURSIVE ParseInt(_)
ParseInt(s) ==
    IF s = "" THEN 0
    ELSE 10 * ParseInt(SubSeq(s, 1, Len(s) - 1)) + DigitValue(SubSeq(s, Len(s), Len(s)))

\* Reading urlparse(u).port raises ValueError: the port text is not a
\* number or is outside 0..65535.
UrlPortRaises(u) ==
    /\ u.port # ""
    /\ \/ ~IsDigits(u.port)
       \/ ParseInt(u.port) > 65535

\* urlparse(u).port where it does not raise; -1 stands for None.
UrlPort(u) == IF u.port = "" THEN -1 ELSE ParseInt(u.port)

\* urlunparse(parsed._replace(netloc="admin_api:9000")) of lines 142-143.
ReplaceNetloc(u) ==
    [u EXCEPT !.scheme = lower(u.scheme), !.host = ADMIN_HOST, !.port = ADMIN_PORT]

\* Line 141: the condition of the admin rewrite, for a hostname that is a
\* string and a port that parses.
NamesAdmin(u) ==
    /\ StrIn(UrlHostname(u), ADMIN_IP_LITERAL)
    /\ (UrlPort(u) = 9000 \/ UrlPort(u) = -1)

(***************************************************************************)
(* The HTML rewrite of /fetch (app.py 194-292)                             *)
(*                                                                         *)
(* A body is a sequence of lexical tokens (a tag, or a run of text), each  *)
(* a string.  The regular expressions of the code are applied token by     *)
(* token: where one matches inside a tag, the tag's token decides.         *)
(***************************************************************************)
\* Line 198.
BASE_TAG == "<base href=\"/fetch/\" />"

\* Bytes that are no UTF-8: content.decode("utf-8", errors="ignore") drops them.
INVALID_UTF8 == "\\xff"

\* Line 196.
Decode(content) == SelectSeq(content, LAMBDA t : t # INVALID_UTF8)

\* \w of the re module (ASCII part).
IsWordChar(c) == StrIn(c, LOWER \o UPPER \o DIGITS \o "_")

\* The token matches (?i)<head\b[^>]*> of line 199.
IsHeadTag(t) ==
    /\ Len(t) > 5
    /\ lower(SubSeq(t, 1, 5)) = "<head"
    /\ ~IsWordChar(SubSeq(t, 6, 6))
    /\ StrIn(">", SubSeq(t, 6, Len(t)))

\* The index of the first token of text that satisfies P, 0 when none does.
FirstFrom(text, from, P(_)) ==
    IF \E i \in from..Len(text) : P(text[i])
    THEN CHOOSE i \in from..Len(text) :
            P(text[i]) /\ \A j \in from..(i - 1) : ~P(text[j])
    ELSE 0

\* Line 199 without count=1: a base tag after every match.
RECURSIVE InjectBase_every(_)
InjectBase_every(text) ==
    IF text = <<>> THEN <<>>
    ELSE (IF IsHeadTag(Head(text)) THEN <<Head(text), BASE_TAG>> ELSE <<Head(text)>>)
         \o InjectBase_every(Tail(text))

\* Line 199: re.sub(..., count=1): the base tag goes after the first match.
InjectBase(text) ==
    LET i == FirstFrom(text, 1, IsHeadTag)
    IN  IF i = 0 THEN text
        ELSE SubSeq(text, 1, i) \o <<BASE_TAG>> \o SubSeq(text, i + 1, Len(text))

\* Lines 206-207: (src|href)=["'] followed by a known static directory.
StaticMatches ==
    { a \o q \o d : a \in {"src=", "href="}, q \in {"\"", "'"},
                    d \in {"swagger/", "flasgger_static/", "static/"} }
StaticDir(m) ==
    CHOOSE d \in {"swagger/", "flasgger_static/", "static/"} :
        \E a \in {"src=", "href="}, q \in {"\"", "'"} : m = a \o q \o d

\* The pattern of line 207 matches at the start of s ([^"']+ needs a character).
StaticAt(s, m) ==
    /\ StartsWith(s, m)
    /\ Len(s) > Len(m)
    /\ SubSeq(s, Len(m) + 1, Len(m) + 1) \notin {"\"", "'"}

\* Lines 202-210 on one token: every match gets /fetch/ before its path.
RECURSIVE rewrite_static(_)
rewrite_static(s) ==
    IF s = "" THEN ""
    ELSE IF SubSeq(s, 1, 1) \in {"s", "h"} /\ \E m \in StaticMatches : StaticAt(s, m)
    THEN LET m == CHOOSE x \in StaticMatches : StaticAt(s, x)
             d == StaticDir(m)
         IN  SubSeq(m, 1, Len(m) - Len(d)) \o "/fetch/" \o d
                 \o rewrite_static(SubSeq(s, Len(m) + 1, Len(s)))
    ELSE SubSeq(s, 1, 1) \o rewrite_static(SubSeq(s, 2, Len(s)))

\* str.replace(old, new).
RECURSIVE Replace(_, _, _)
Replace(s, old, new) ==
    IF Len(s) < Len(old) THEN s
    ELSE IF StartsWith(s, old)
    THEN new \o Replace(SubSeq(s, Len(old) + 1, Len(s)), old, new)
    ELSE SubSeq(s, 1, 1) \o Replace(SubSeq(s, 2, Len(s)), old, new)

\* <script of lines 213 and 220 and </script>, both under re.IGNORECASE.
IsScriptOpen(t)  == Len(t) >= 7 /\ lower(SubSeq(t, 1, 7)) = "<script"
IsScriptClose(t) == StrIn("</script>", lower(t))

\* Line 213: inside every <script ...> ... </script> block, None becomes null.
RECURSIVE NoneToNull(_, _)
NoneToNull(text, i) ==
    IF i > Len(text) THEN text
    ELSE IF IsScriptOpen(text[i]) /\ FirstFrom(text, i + 1, IsScriptClose) # 0
    THEN LET k == FirstFrom(text, i + 1, IsScriptClose)
             fixed == [j \in 1..Len(text) |->
                          IF j \in i..k THEN Replace(text[j], "None", "null")
                          ELSE text[j]]
         IN  NoneToNull(fixed, k + 1)
    ELSE NoneToNull(text, i + 1)

HasSrc(t)    == StrIn("src", lower(t))
HasOnload(t) == StrIn("window.onload", lower(t))

\* The pattern of line 220 matches from token i: <script, no "src" anywhere
\* after it in the text, then window.onload, then </script>.  The result is
\* the index of the closing token, 0 without a match.
OnloadMatchEnd(text, i) ==
    IF /\ IsScriptOpen(text[i])
       /\ ~HasSrc(SubSeq(text[i], 8, Len(text[i])))
       /\ \A j \in (i + 1)..Len(text) : ~HasSrc(text[j])
       /\ FirstFrom(text, i + 1, HasOnload) # 0
    THEN FirstFrom(text, FirstFrom(text, i + 1, HasOnload) + 1, IsScriptClose)
    ELSE 0

\* Line 221: every match of the pattern is deleted (matches do not overlap).
RECURSIVE RemoveOnloadScripts(_, _)
RemoveOnloadScripts(text, i) ==
    IF i > Len(text) THEN <<>>
    ELSE IF OnloadMatchEnd(text, i) # 0
    THEN RemoveOnloadScripts(text, OnloadMatchEnd(text, i) + 1)
    ELSE <<text[i]>> \o RemoveOnloadScripts(text, i + 1)

\* Lines 227-289: the injected Swagger initialisation script.
CUSTOM_SWAGGER_SCRIPT ==
    "<script>window.onload = function () { window.ui = SwaggerUIBundle({url: \"http://109.205.181.210:12000/openapi.json\"}); };</script>"

\* Line 291: text.replace("</body>", custom_swagger_script + "</body>").
RECURSIVE InjectSwagger(_)
InjectSwagger(text) ==
    IF text = <<>> THEN <<>>
    ELSE (IF Head(text) = "</body>" THEN <<CUSTOM_SWAGGER_SCRIPT, "</body>">>
          ELSE <<Head(text)>>) \o InjectSwagger(Tail(text))

\* Lines 196-292, in the order of the code.
RewriteHtml(content) ==
    LET decoded  == Decode(content)
        based    == InjectBase(decoded)
        statics  == [i \in 1..Len(based) |-> rewrite_static(based[i])]
        nulled   == NoneToNull(statics, 1)
        stripped == RemoveOnloadScripts(nulled, 1)
    IN  InjectSwagger(stripped)

\* Line 194: "text/html" in content_type.lower().
IsHtml(content_type) == StrIn("text/html", lower(content_type))

(***************************************************************************)
(* The /fetch handler (app.py 121-308)                                     *)
(***************************************************************************)
\* A URL as the string the code passes around (urlunparse's output; a raw
\* query value keeps its padding and its extra percent-encoding).
UrlText(u) ==
    LET authority == IF u.host = "" /\ u.port = "" THEN ""
                     ELSE "//" \o u.host \o (IF u.port = "" THEN "" ELSE ":" \o u.port)
        plain == (IF u.scheme = "" THEN "" ELSE u.scheme \o ":") \o authority \o u.path
        quoted == IF u.pct THEN Replace(plain, "/", "%2F") ELSE plain
    IN  IF u.ws THEN " " \o quoted \o " " ELSE quoted

\* Lines 127-129 and 303-305.
CorsHeaders ==
    ("Access-Control-Allow-Origin" :> "*")
    @@ ("Access-Control-Allow-Methods" :> "GET, POST, OPTIONS")
    @@ ("Access-Control-Allow-Headers" :> "Content-Type")

\* jsonify({"error": msg}), status: a JSON body and its content type only.
JsonError(msg, status) ==
    [status  |-> status,
     headers |-> ("Content-Type" :> "application/json"),
     body    |-> <<"{\"error\": \"" \o msg \o "\"}">>]

\* An exception no handler catches: the framework answers 500 itself.
Unhandled(exc) ==
    [status  |-> 500,
     headers |-> ("Content-Type" :> "text/html"),
     body    |-> <<exc>>]

\* Lines 125-130.
OptionsResponse ==
    [status |-> 204, headers |-> CorsHeaders, body |-> <<>>]

\* Lines 133-145: the target the request names, "missing" without one, and
\* "raise" where line 140 or 141 raises (an unparsable authority; a None
\* hostname is no left operand of `in <str>`; a bad port raises when read).
DetermineTarget(r) ==
    IF r.subpath # None
    THEN [kind |-> "target", url |-> Url("http", ADMIN_HOST, ADMIN_PORT, "/" \o r.subpath)]
    ELSE IF Truthy(r.url)
    THEN LET t == unquote(strip(r.url))
         IN  IF UrlParseRaises(t)
             THEN [kind |-> "raise", exc |-> "ValueError", url |-> t]
             ELSE IF UrlHostname(t) = None
             THEN [kind |-> "raise", exc |-> "TypeError", url |-> t]
             ELSE IF StrIn(UrlHostname(t), ADMIN_IP_LITERAL) /\ UrlPortRaises(t)
             THEN [kind |-> "raise", exc |-> "ValueError", url |-> t]
             ELSE IF NamesAdmin(t)
             THEN [kind |-> "target", url |-> ReplaceNetloc(t)]
             ELSE [kind |-> "target", url |-> t]
    ELSE [kind |-> "missing"]

\* Line 150.
ValidTarget(u) == UrlScheme(u) \in {"http", "https"} /\ UrlHostname(u) # None

\* Line 155 with any() where the code has all().
IpsAllowed_any(resolved_ips) ==
    IF resolved_ips # {} THEN \E ip \in resolved_ips : is_ip_allowed(ip) ELSE FALSE

\* Line 155.
IpsAllowed(resolved_ips) ==
    IF resolved_ips # {} THEN \A ip \in resolved_ips : is_ip_allowed(ip) ELSE FALSE

\* Lines 153-156: the verdict of the validation.
HostAllowed(u, e) ==
    LET hostname == UrlHostname(u)
    IN  hostname \in ALLOWED_HOSTNAMES \/ IpsAllowed(resolve_hostname(hostname, e))

\* Lines 167-185: the request the handler sends to target_url.
Outbound(r, u) ==
    [method |-> IF r.method = "POST" THEN "POST" ELSE "GET",
     url    |-> UrlText(u),
     host   |-> UrlHostname(u),
     body   |-> IF r.method # "POST" THEN "none"
                ELSE IF StrIn("application/json", lower(r.ctype)) THEN "json"
                ELSE "data",
     agent  |-> USER_AGENT]

\* allow_redirects=True: the request the client library sends when the
\* first answer is a redirect to the URL `to`.
Redirected(to) ==
    [method |-> "GET", url |-> UrlText(to), host |-> UrlHostname(to),
     body |-> "none", agent |-> USER_AGENT]

\* The requests issued for target u: the first one, and the redirect's when
\* the first hop answered with one.
Hops(r, u, up) ==
    IF up.redirect = NoUrl \/ up.fail THEN <<Outbound(r, u)>>
    ELSE <<Outbound(r, u), Redirected(up.redirect)>>

\* Lines 299-306 without the CORS entries.
ProxyHeaders_nocors(r, final_url) ==
    ("X-Proxy-Status" :> "proxied")
    @@ ("X-Proxy-Original-URL" :>
            IF Truthy(r.url) THEN UrlText(r.url) ELSE "/" \o r.subpath)
    @@ ("X-Proxy-Final-URL" :> final_url)

\* Lines 299-306.
ProxyHeaders(r, final_url) ==
    ("X-Proxy-Status" :> "proxied")
    @@ ("X-Proxy-Original-URL" :>
            IF Truthy(r.url) THEN UrlText(r.url) ELSE "/" \o r.subpath)
    @@ ("X-Proxy-Final-URL" :> final_url)
    @@ CorsHeaders

\* Lines 190-308: the answer built from the upstream response.
Proxied(r, u, up) ==
    LET content_type == IF up.ctype = None THEN "application/octet-stream" ELSE up.ctype
        content == IF content_type # "" /\ IsHtml(content_type)
                   THEN RewriteHtml(up.body) ELSE up.body
        hops == Hops(r, u, up)
    IN  [status  |-> up.status,
         headers |-> ProxyHeaders(r, hops[Len(hops)].url)
                     @@ ("Content-Type" :> content_type),
         body    |-> content]

\* The handler: the response and the outbound requests issued, for request r
\* and the environment's answers e.
fetch(r, e) ==
    IF r.method = "OPTIONS" THEN [resp |-> OptionsResponse, sent |-> <<>>]
    ELSE LET t == DetermineTarget(r)
         IN  IF t.kind = "missing"
             THEN [resp |-> JsonError("Missing 'url' parameter or path", 400), sent |-> <<>>]
             ELSE IF t.kind = "raise"
             THEN [resp |-> Unhandled(t.exc), sent |-> <<>>]
             ELSE IF ~ValidTarget(t.url)
             THEN [resp |-> JsonError("Invalid URL scheme or hostname", 400), sent |-> <<>>]
             ELSE IF ~HostAllowed(t.url, e)
             THEN [resp |-> JsonError("Host not allowed", 404), sent |-> <<>>]
             ELSE IF e.up.fail
             THEN [resp |-> JsonError("Failed to fetch URL", 502),
                   sent |-> Hops(r, t.url, e.up)]
             ELSE [resp |-> Proxied(r, t.url, e.up),
                   sent |-> Hops(r, t.url, e.up)]

(***************************************************************************)
(* Inputs of the Gateway: requests and the environment's answers           *)
(***************************************************************************)
\* The longest DNS answer and the longest upstream body the model draws.
MaxIps == 2
MaxBodyLen == 4

BoundedSeq(S, n) == UNION {[1..k -> S] : k \in 0..n}
SmallSubsets(S, n) == {T \in SUBSET S : Cardinality(T) <= n}

FetchRequest(method, subpath, url, ctype) ==
    [method |-> method, subpath |-> subpath, url |-> url, ctype |-> ctype]

\* No request handled yet.
NoRequest == FetchRequest("-", None, NoUrl, "")
NoEnv == [ips |-> {}, up |-> [fail |-> TRUE]]
NoResponse == [status |-> 0, headers |-> <<>>, body |-> <<>>]

\* Raw values of the url query parameter.
Schemes == {"http", "HTTPS", "ftp", ""}
Hosts == {"", "109.205.181.210", "109", "localhost", "Picsum.Photos",
          "evil.example.com", "admin_api"}
Ports == {"", "9000", "12000", "99999"}
RawUrls ==
    {Url(s, h, p, "/status") : s \in Schemes, h \in Hosts, p \in Ports}
    \cup {EmptyUrl, Url("", "", "", "status"), Url("http", "1", "x", "/"),
          Url("http", "[::1", "", "/"),
          [Url("http", "evil.example.com", "", "/a") EXCEPT !.ws = TRUE],
          [Url("http", "109.205.181.210", "9000", "/render") EXCEPT !.pct = TRUE],
          [EmptyUrl EXCEPT !.ws = TRUE]}

FetchRequests ==
    {FetchRequest("GET", None, u, "") : u \in RawUrls \cup {NoUrl}}
    \cup {FetchRequest(m, "status", u, "") :
            m \in {"GET", "OPTIONS"}, u \in {NoUrl, Url("http", "evil.example.com", "", "/")}}
    \cup {FetchRequest("POST", None, u, c) :
            u \in {NoUrl, Url("http", "109.205.181.210", "", "/render/json"),
                   Url("http", "evil.example.com", "", "/"), Url("ftp", "", "", "/x")},
            c \in {"", "Application/JSON; charset=utf-8"}}
    \cup {FetchRequest("OPTIONS", None, NoUrl, "")}

\* Addresses DNS may answer with: every edge of the four networks.
PUBLIC_IP == Ip4(8, 8, 8, 8)
PRIVATE_IP == Ip4(10, 1, 2, 3)
IpPool == {PUBLIC_IP, PRIVATE_IP, Ip4(127, 0, 0, 1), Ip4(126, 255, 255, 255),
           Ip4(128, 0, 0, 0), Ip4(11, 0, 0, 0), Ip4(172, 15, 255, 255),
           Ip4(172, 16, 0, 0), Ip4(172, 31, 255, 255), Ip4(172, 32, 0, 0),
           Ip4(192, 168, 255, 255), Ip4(192, 169, 0, 0), Ip6(1)}

\* An answer of the upstream server (after redirects), or a transport failure.
Upstream(status, ctype, body, redirect) ==
    [fail |-> FALSE, status |-> status, ctype |-> ctype, body |-> body,
     redirect |-> redirect]
UpstreamFailure == [fail |-> TRUE, redirect |-> NoUrl]

SampleHtml == <<"<header>", "<head>", INVALID_UTF8, "<link href='swagger/ui.css'>",
                "<script>", "None", "</script>", "</body>">>
SampleJson == <<"{\"ok\": true}">>

FetchUpstreams ==
    {UpstreamFailure}
    \cup {Upstream(st, ct, b, rd) :
            st \in {200, 404},
            ct \in {None, "Text/HTML; charset=utf-8", "application/json"},
            b \in {SampleHtml},
            rd \in {NoUrl, Url("http", "evil.example.com", "", "/landing")}}

FetchEnvs ==
    {[ips |-> i, up |-> u] :
        i \in {{}, {PUBLIC_IP}, {PRIVATE_IP}, {PRIVATE_IP, PUBLIC_IP}},
        u \in FetchUpstreams}

\* The validation policy: few targets, every DNS answer.
PolicyRequests ==
    {FetchRequest("GET", None, Url("http", h, "", "/"), "") :
        h \in {"evil.example.com", "picsum.photos", "intra.corp", "109.205.181.210"}}
    \cup {FetchRequest("GET", None, Url("ftp", "intra.corp", "", "/"), "")}
PolicyEnvs ==
    {[ips |-> i, up |-> u] :
        i \in SmallSubsets(IpPool, MaxIps),
        u \in {UpstreamFailure, Upstream(200, "application/json", SampleJson, NoUrl)}}

\* The HTML rewrite: one permitted target, every body.
HtmlTokens == {"<head>", "<HEAD lang=\"en\">", "<base href=\"/x/\">",
               "<script>", "<script src=\"static/app.js\">", "window.onload = init;",
               "</script>"}
HtmlRequests == {FetchRequest("GET", "openapi", NoUrl, "")}
HtmlEnvs ==
    {[ips |-> {PRIVATE_IP}, up |-> Upstream(200, ct, b, NoUrl)] :
        ct \in {"text/html; charset=utf-8"},
        b \in BoundedSeq(HtmlTokens, MaxBodyLen)}

(***************************************************************************)
(* Render Service configuration (admin_api.py 15-22)                       *)
(***************************************************************************)
MAX_TPL_BYTES == 65536
LOG_TRUNCATE == 2000
ALLOWED_IMAGE_SCHEMES == {"http", "https"}
BANNED_HOSTNAMES == {"localhost", "127.0.0.1", "::1"}

\* Line 263.
FAKE_FLAG == "FLAG{non_root_rce_obtained}"

\* Line 90.
DEFAULT_IMAGE_URL == "https://example.org/sample.jpg"

(***************************************************************************)
(* Text.  A text is a sequence of chunks; a chunk is the string s repeated *)
(* n times, each of its characters w bytes long in UTF-8.  A template's    *)
(* expressions ({{ ... }}) are chunks of their own.                        *)
(***************************************************************************)
Lit(s) == [s |-> s, n |-> 1, w |-> 1]
Rep(s, n, w) == [s |-> s, n |-> n, w |-> w]

\* The value of a response field that is absent.
NoText == <<[s |-> None, n |-> 0, w |-> 0]>>

\* len(text) and len(text.encode("utf-8")).
RECURSIVE CharLen(_)
CharLen(text) ==
    IF text = <<>> THEN 0
    ELSE Len(Head(text).s) * Head(text).n + CharLen(Tail(text))

RECURSIVE ByteLen(_)
ByteLen(text) ==
    IF text = <<>> THEN 0
    ELSE Len(Head(text).s) * Head(text).n * Head(text).w + ByteLen(Tail(text))

\* text[:k]
RECURSIVE Truncate(_, _)
Truncate(text, k) ==
    IF text = <<>> \/ k <= 0 THEN <<>>
    ELSE LET c == Head(text)
             len == Len(c.s) * c.n
         IN  IF len <= k THEN <<c>> \o Truncate(Tail(text), k - len)
             ELSE LET full == k \div Len(c.s)
                      rest == k % Len(c.s)
                  IN  (IF full > 0 THEN <<[c EXCEPT !.n = full]>> ELSE <<>>)
                      \o (IF rest > 0 THEN <<[c EXCEPT !.s = SubSeq(c.s, 1, rest), !.n = 1]>>
                          ELSE <<>>)

\* text.replace(old, new), for an old that lies within a chunk.
ReplaceIn(text, old, new) ==
    [i \in 1..Len(text) |-> [text[i] EXCEPT !.s = Replace(text[i].s, old, new)]]

\* s repeated n times.
RECURSIVE Times(_, _)
Times(s, n) == IF n <= 0 THEN "" ELSE s \o Times(s, n - 1)

\* `m in text`.  A run of more than Len(m) + 1 copies of a chunk holds the
\* same substrings of m's length as Len(m) + 1 copies do.
RECURSIVE Flat(_, _)
Flat(text, cap) ==
    IF text = <<>> THEN ""
    ELSE Times(Head(text).s, Min(Head(text).n, cap)) \o Flat(Tail(text), cap)
Contains(text, m) == StrIn(m, Flat(text, Len(m) + 1))

\* json.dumps of a string, without the quotes around it.
JsonEscape(text) ==
    ReplaceIn(ReplaceIn(ReplaceIn(text, "\\", "\\\\"), "\"", "\\\""), "\n", "\\n")

(***************************************************************************)
(* The template engine: InsecureSandbox.from_string(src).render(ctx)     *)
(* (admin_api.py 55-67, 260-261), by its results on the expressions the    *)
(* model submits.                                                          *)
(***************************************************************************)
SSTI_PAYLOAD == "{{ lipsum.__globals__.os.popen('cat /home/monkey/flag.txt').read() }}"

\* insecure_env (line 67) is one object for all requests.  Its globals are
\* the names every template starts from; InsecureSandbox lets a template
\* reach them and call dict.update on them.  NO_GLOBALS: the names a
\* template has added since the process started, none at first.
NO_GLOBALS == {}
GLOBALS_UPDATE == "{{ self._TemplateReference__context.environment.globals.update(pwned=1) }}"
GLOBALS_READ == "{{ pwned }}"

IsExpression(s) == StartsWith(s, "{{") \/ StartsWith(s, "{%")

\* The value of one expression: [ok, out], out the string it renders to.
\* Names resolve in the render arguments c, then in the globals g.
Evaluate(s, c, g) ==
    CASE s = "{{ 7*6 }}"        -> [ok |-> TRUE, out |-> "42"]
      [] s = GLOBALS_UPDATE     -> [ok |-> TRUE, out |-> "None"]
      [] s = GLOBALS_READ       -> [ok |-> TRUE, out |-> IF "pwned" \in g THEN "1" ELSE ""]
      [] s = "{{ username }}"   -> [ok |-> TRUE, out |-> c.username]
      [] s = "{{ image_url }}"  -> [ok |-> TRUE, out |-> c.image_url]
      [] s = "{{ server_time }}" -> [ok |-> TRUE, out |-> c.server_time]
      [] s = "{{ notice }}"     -> [ok |-> TRUE, out |-> c.notice]
      [] s = "{{ \"a\" }}"      -> [ok |-> TRUE, out |-> "a"]
      [] s = "{{ nope }}"       -> [ok |-> TRUE, out |-> ""]
      [] s = SSTI_PAYLOAD       -> [ok |-> TRUE, out |-> FAKE_FLAG \o "\n"]
      [] s = "{{ 1/0 }}"        -> [ok |-> FALSE, out |-> "division by zero"]
      [] OTHER                  -> [ok |-> FALSE, out |-> "unexpected char"]

\* The lexer drops a single trailing newline of the source.
StripTrailingNewline(src) ==
    IF src = <<>> THEN src
    ELSE LET c == src[Len(src)]
             front == SubSeq(src, 1, Len(src) - 1)
         IN  IF IsExpression(c.s) \/ c.s = "" \/ c.n = 0
                \/ SubSeq(c.s, Len(c.s), Len(c.s)) # "\n"
             THEN src
             ELSE IF c.n > 1 /\ Len(c.s) = 1 THEN front \o <<[c EXCEPT !.n = c.n - 1]>>
             ELSE IF c.n > 1
             THEN front \o <<[c EXCEPT !.n = c.n - 1],
                             [c EXCEPT !.s = SubSeq(c.s, 1, Len(c.s) - 1), !.n = 1]>>
             ELSE IF Len(c.s) = 1 THEN front
             ELSE front \o <<[c EXCEPT !.s = SubSeq(c.s, 1, Len(c.s) - 1)]>>

\* The globals after the chunks before position k have been evaluated, from
\* the globals g: an update takes effect for what follows it.
GlobalsAt(body, k, g) ==
    g \cup (IF \E i \in 1..(k - 1) : body[i].s = GLOBALS_UPDATE THEN {"pwned"} ELSE {})

\* from_string(src).render(c) in an environment whose globals are g:
\* [ok, text, globals], text the output or the error, globals the
\* environment's globals afterwards (an update made before an error stays).
jinja_render(src, c, g) ==
    LET body == StripTrailingNewline(src)
        value(i) == Evaluate(body[i].s, c, GlobalsAt(body, i, g))
        bad == {i \in 1..Len(body) : IsExpression(body[i].s) /\ ~value(i).ok}
        first == CHOOSE i \in bad : \A j \in bad : i <= j
    IN  IF bad # {}
        THEN [ok |-> FALSE,
              text |-> <<Lit(value(first).out)>>,
              globals |-> GlobalsAt(body, first, g)]
        ELSE [ok |-> TRUE,
              text |-> [i \in 1..Len(body) |->
                          IF IsExpression(body[i].s)
                          THEN [body[i] EXCEPT !.s = value(i).out]
                          ELSE body[i]],
              globals |-> GlobalsAt(body, Len(body) + 1, g)]

(***************************************************************************)
(* is_safe_url / get_template_context (admin_api.py 71-93)                 *)
(***************************************************************************)
\* Lines 71-84 without the check of line 82.
is_safe_url_noban(url) ==
    IF ~Truthy(url) THEN FALSE
    ELSE IF UrlParseRaises(url) THEN FALSE
    ELSE IF UrlScheme(url) \notin ALLOWED_IMAGE_SCHEMES THEN FALSE
    ELSE IF UrlHostname(url) = None THEN FALSE
    ELSE TRUE

\* Lines 71-84.
is_safe_url(url) ==
    IF ~Truthy(url) THEN FALSE
    ELSE IF UrlParseRaises(url) THEN FALSE
    ELSE IF UrlScheme(url) \notin ALLOWED_IMAGE_SCHEMES THEN FALSE
    ELSE IF UrlHostname(url) = None THEN FALSE
    ELSE IF UrlHostname(url) \in BANNED_HOSTNAMES THEN FALSE
    ELSE TRUE

\* Lines 87-93.  image_url is a URL or NoUrl (None); e.clock is utcnow().
get_template_context(image_url, e) ==
    [username    |-> "guest_user",
     image_url   |-> IF Truthy(image_url) THEN UrlText(image_url) ELSE DEFAULT_IMAGE_URL,
     server_time |-> e.clock,
     notice      |-> "This is an intentionally vulnerable sandbox for CTF use."]

NoCtx == [username |-> None, image_url |-> None, server_time |-> None, notice |-> None]

(***************************************************************************)
(* POST /render and POST /render/json (admin_api.py 243-327)               *)
(*                                                                         *)
(* A request: the route, how the body is encoded ("form": form fields      *)
(* template and image_url; "json": a JSON object with these members;       *)
(* "raw": the template as the body), the template, the image URL.          *)
(***************************************************************************)
\* The body of a "json" request.
JsonBody(r) ==
    <<Lit("{\"template\": \"")>> \o JsonEscape(r.template)
    \o (IF Truthy(r.image_url)
        THEN <<Lit("\", \"image_url\": \"" \o UrlText(r.image_url))>> ELSE <<>>)
    \o <<Lit("\"}")>>

\* Lines 245 and 310: request.form.get("template") or
\* request.get_data(as_text=True) or "".  Only a form body has form fields;
\* reading them consumes the body.
RawTemplate(r) ==
    CASE r.kind = "form" -> r.template
      [] r.kind = "json" -> JsonBody(r)
      [] r.kind = "raw"  -> r.template

\* Lines 250-252 and 314-316: request.form.get("image_url") or None, dropped
\* when it is not safe.
ImageUrl(r) ==
    LET image_url == IF r.kind = "form" /\ Truthy(r.image_url) THEN r.image_url ELSE NoUrl
    IN  IF image_url # NoUrl /\ ~is_safe_url(image_url) THEN NoUrl ELSE image_url

\* Lines 255-256 and 318-319: the line written to the submissions log.
LogLine(prefix, r, raw) ==
    [msg  |-> prefix,
     addr |-> r.remote_addr,
     text |-> ReplaceIn(Truncate(raw, LOG_TRUNCATE), "\n", "\\n")]

\* What reaches the log with logging inside the try block, after render().
Logged_onsuccess(line, rendered_ok) == IF rendered_ok THEN <<line>> ELSE <<>>

\* Lines 256 and 319: logging.info runs before the try block, whatever the
\* evaluation is going to do.
Logged(line, rendered_ok) == <<line>>

PlainResponse(text, status) ==
    [status |-> status, mimetype |-> "text/html", body |-> text, rendered |-> NoText]
JsonErrorResponse(text, status) ==
    [status |-> status, mimetype |-> "application/json",
     body |-> <<Lit("{\"error\": \"")>> \o JsonEscape(text) \o <<Lit("\"}\n")>>,
     rendered |-> NoText]

HTML_HEAD == "<!doctype html><html><head><meta charset=\"utf-8\"><title>Rendered Preview</title></head><body><h2>Rendered output</h2><div>"
HTML_TAIL == "</div><hr><p><a href=\"/render\">Back to template preview</a></p></body></html>"
FLAG_NOTE == "\n\n-- Fake flag observed by server --"

\* What a handler did: its response, the lines it appended to the two files,
\* the context it built, the order of its steps and the globals of
\* insecure_env it leaves behind.
Outcome(response, lines, marks, c, steps, g) ==
    [resp |-> response, log |-> lines, marks |-> marks, ctx |-> c, events |-> steps,
     globals |-> g]

\* Lines 243-287.
render_page_post(r, e, g) ==
    LET raw == RawTemplate(r)
    IN  IF ByteLen(raw) > MAX_TPL_BYTES
        THEN Outcome(PlainResponse(<<Lit("Template too large")>>, 413), <<>>, <<>>, NoCtx, <<>>, g)
        ELSE
        LET image_url == ImageUrl(r)
            line == LogLine("Submission from", r, raw)
            c == get_template_context(image_url, e)
            out == jinja_render(raw, c, g)
            lines == Logged(line, out.ok)
        IN  IF ~out.ok
            THEN Outcome(PlainResponse(<<Lit("Template error: ")>> \o out.text, 400),
                         lines, <<>>, c, <<"log", "evaluate">>, out.globals)
            ELSE IF Contains(out.text, FAKE_FLAG)
            THEN IF e.write_ok
                 THEN Outcome([status |-> 200, mimetype |-> "text/html",
                               body |-> <<Lit(HTML_HEAD)>> \o out.text
                                        \o <<Lit(FLAG_NOTE), Lit(HTML_TAIL)>>,
                               rendered |-> out.text],
                              lines, <<[addr |-> r.remote_addr, time |-> e.clock]>>, c,
                              <<"log", "evaluate", "mark">>, out.globals)
                 ELSE Outcome(PlainResponse(<<Lit("Template error: Permission denied")>>, 400),
                              lines, <<>>, c, <<"log", "evaluate">>, out.globals)
            ELSE Outcome([status |-> 200, mimetype |-> "text/html",
                          body |-> <<Lit(HTML_HEAD)>> \o out.text \o <<Lit(HTML_TAIL)>>,
                          rendered |-> out.text],
                         lines, <<>>, c, <<"log", "evaluate">>, out.globals)

\* Lines 308-327.
render_page_post_json(r, e, g) ==
    LET raw == RawTemplate(r)
    IN  IF ByteLen(raw) > MAX_TPL_BYTES
        THEN Outcome(JsonErrorResponse(<<Lit("Template too large")>>, 413),
                     <<>>, <<>>, NoCtx, <<>>, g)
        ELSE
        LET image_url == ImageUrl(r)
            line == LogLine("Submission (json) from", r, raw)
            c == get_template_context(image_url, e)
            out == jinja_render(raw, c, g)
            lines == Logged(line, out.ok)
        IN  IF ~out.ok
            THEN Outcome(JsonErrorResponse(out.text, 400), lines, <<>>, c,
                         <<"log", "evaluate">>, out.globals)
            ELSE Outcome([status |-> 200, mimetype |-> "application/json",
                          body |-> <<Lit("{\"rendered_html\": \"")>> \o JsonEscape(out.text)
                                   \o <<Lit("\"}\n")>>,
                          rendered |-> out.text],
                         lines, <<>>, c, <<"log", "evaluate">>, out.globals)

(***************************************************************************)
(* Inputs of the Render Service                                            *)
(***************************************************************************)
\* The most lines the submissions log grows to.
MaxLog == 2

RenderRequest(route, kind, template, image_url) ==
    [route |-> route, kind |-> kind, template |-> template, image_url |-> image_url,
     remote_addr |-> "203.0.113.7"]

NoRender == RenderRequest("-", "-", <<>>, NoUrl)
NoRenderEnv == [clock |-> None, write_ok |-> TRUE]
NoRenderResponse == [status |-> 0, mimetype |-> "", body |-> <<>>, rendered |-> NoText]

Routes == {"/render", "/render/json"}

\* Templates: the probes of the spec, an error, the marker typed in and
\* read out, and sizes on both sides of the limit.
Templates ==
    {<<Lit("{{ 7*6 }}")>>,
     <<Lit("Hi "), Lit("{{ username }}")>>,
     <<Lit("{{ 1/0 }}")>>,
     <<Lit(FAKE_FLAG)>>,
     <<Rep("x", MAX_TPL_BYTES - 8, 1)>>,
     <<Rep("x", MAX_TPL_BYTES + 1, 1)>>}

RenderRequests ==
    {RenderRequest(rt, k, t, NoUrl) : rt \in Routes, k \in {"form", "json"}, t \in Templates}
    \cup {RenderRequest(rt, "raw", <<Lit(SSTI_PAYLOAD)>>, NoUrl) : rt \in Routes}
RenderEnvs == {[clock |-> "2026-01-01 00:00:00 UTC", write_ok |-> w] : w \in BOOLEAN}

\* Image URLs: every scheme and host the checks of is_safe_url tell apart.
ImageUrls ==
    {Url(s, h, "", "/a.png") :
        s \in {"http", "HTTPS", "ftp", ""},
        h \in {"", "localhost", "LOCALHOST", "127.0.0.1", "[::1]", "[::1",
               "cdn.example.com", "127.0.0.2"}}
    \cup {Url("https", "localhost", "9000", "/a.png"), EmptyUrl, NoUrl}
ImageTemplates ==
    {<<Lit("{{ image_url }}"), Lit("\n")>>,
     <<Lit("{{ \"a\" }}"), Rep("\n", 2, 1), Rep("e", 5, 2),
       Lit("{{ server_time }}"), Lit("{{ nope }}")>>}
ImageRequests ==
    {RenderRequest(rt, "form", t, u) :
        rt \in Routes, t \in ImageTemplates, u \in ImageUrls}
    \cup {RenderRequest(rt, "json", <<Lit("{{ image_url }}")>>,
                        Url("http", "127.0.0.1", "", "/a.png")) : rt \in Routes}
ImageEnvs == {[clock |-> "2026-01-01 00:00:00 UTC", write_ok |-> TRUE]}

\* Histories: requests that succeed, that fail with 400 and with 413, one
\* that changes insecure_env.globals (alone, and just before an error), and
\* one that reads the name it sets.
IsolationTemplates ==
    {<<Lit("{{ username }}")>>,
     <<Lit("{{ 1/0 }}")>>,
     <<Rep("x", MAX_TPL_BYTES + 1, 1)>>,
     <<Lit(GLOBALS_UPDATE)>>,
     <<Lit(GLOBALS_UPDATE), Lit("{{ 1/0 }}")>>,
     <<Lit(GLOBALS_READ)>>}
IsolationRequests ==
    {RenderRequest(rt, "form", t, NoUrl) : rt \in Routes, t \in IsolationTemplates}
    \cup {RenderRequest(rt, "raw", <<Lit(SSTI_PAYLOAD)>>, NoUrl) : rt \in Routes}
IsolationFetches ==
    {FetchRequest("GET", None, u, "") :
        u \in {NoUrl, Url("http", "evil.example.com", "", "/"),
               Url("http", "picsum.photos", "", "/"), Url("ftp", "", "", "/x")}}
IsolationFetchEnvs ==
    {[ips |-> i, up |-> u] :
        i \in {{PUBLIC_IP}, {PRIVATE_IP}},
        u \in {UpstreamFailure, Upstream(200, "application/json", SampleJson, NoUrl)}}

(***************************************************************************)
(* POST /feedback (app.py 81-111)                                          *)
(***************************************************************************)
\* Characters str.strip() removes.
WHITESPACE == {" ", "\t", "\n", "\r", "\f"}

\* str.lstrip(), str.rstrip(), str.strip().
RECURSIVE lstrip(_)
lstrip(s) ==
    IF s # "" /\ SubSeq(s, 1, 1) \in WHITESPACE THEN lstrip(SubSeq(s, 2, Len(s))) ELSE s
RECURSIVE rstrip(_)
rstrip(s) ==
    IF s # "" /\ SubSeq(s, Len(s), Len(s)) \in WHITESPACE
    THEN rstrip(SubSeq(s, 1, Len(s) - 1)) ELSE s
str_strip(s) == rstrip(lstrip(s))

\* html.escape(s) with quote=True: & first, then < > " '.
html_escape(s) ==
    Replace(Replace(Replace(Replace(Replace(s, "&", "&amp;"), "<", "&lt;"),
                            ">", "&gt;"), "\"", "&quot;"), "'", "&#x27;")

\* Line 94 left out: the text goes to the log with its line breaks.
NormalizeNewlines_kept(s) == s

\* Line 94: replace("\n", "\\n").replace("\r", "\\r").
NormalizeNewlines(s) == Replace(Replace(s, "\n", "\\n"), "\r", "\\r")

\* The lines of a text file: its newline characters.
CountLines(s) == Cardinality({i \in 1..Len(s) : SubSeq(s, i, i) = "\n"})

\* A request: the feedback form field, the X-Forwarded-For and User-Agent
\* headers (None when absent) and the peer address.
FeedbackRequest(field, xff, ua) ==
    [feedback |-> field, xff |-> xff, ua |-> ua, remote_addr |-> "203.0.113.7"]

\* redirect("/", code=303) and jsonify({"error": msg}), status.
RedirectResponse == [status |-> 303, location |-> "/", body |-> ""]
FeedbackError(msg, status) ==
    [status |-> status, location |-> None, body |-> "{\"error\": \"" \o msg \o "\"}"]

\* Lines 98-102: the line for the log.
LogEntry(r, e, safe_text) ==
    LET timestamp == e.clock
        ip == IF r.xff # None THEN r.xff ELSE r.remote_addr
        ua == IF r.ua # None THEN r.ua ELSE "?"
    IN  "[" \o timestamp \o "] IP=" \o ip \o " UA=" \o ua \o " MSG=" \o safe_text \o "\n"

\* The handler: its response and the text it appended to FEEDBACK_LOG.
feedback(r, e) ==
    LET raw == r.feedback
        text == str_strip(IF raw = None THEN "" ELSE raw)
    IN  IF text = ""
        THEN [resp |-> FeedbackError("Feedback cannot be empty", 400), written |-> ""]
        ELSE LET safe_text == NormalizeNewlines(html_escape(text))
                 log_entry == LogEntry(r, e, safe_text)
             IN  IF e.write_ok
                 THEN [resp |-> RedirectResponse, written |-> log_entry]
                 ELSE [resp |-> FeedbackError("Could not write feedback", 500),
                       written |-> ""]

\* The most lines the feedback log grows to.
MaxFeedback == 2

NoFeedback == FeedbackRequest(None, None, "-")
NoFeedbackEnv == [clock |-> None, write_ok |-> TRUE]
NoFeedbackResponse == [status |-> 0, location |-> None, body |-> ""]

\* Field values: absent, empty, blank, and texts with markup, quotes and
\* line breaks inside and around them.
FeedbackFields ==
    {None, "", " ", " \t\r\n", "ok", " a\nb ", "\r\nx\ry\n", "<b>&\"'</b>"}
FeedbackRequests ==
    {FeedbackRequest(f, x, "curl/8") : f \in FeedbackFields, x \in {None, "198.51.100.9"}}
    \cup {FeedbackRequest("ok", None, None)}
FeedbackEnvs == {[clock |-> "2026-01-01T00:00:00", write_ok |-> w] : w \in BOOLEAN}

(***************************************************************************)
(* State machine                                                           *)
(***************************************************************************)
vars == <<req, env, resp, sent, rreq, renv, rresp, ctx, events, log, status_file,
          insecure_env, freq, fenv, fresp, feedback_log>>

Init ==
    /\ req = NoRequest
    /\ env = NoEnv
    /\ resp = NoResponse
    /\ sent = <<>>
    /\ rreq = NoRender
    /\ renv = NoRenderEnv
    /\ rresp = NoRenderResponse
    /\ ctx = NoCtx
    /\ events = <<>>
    /\ log = <<>>
    /\ status_file = <<>>
    /\ insecure_env = NO_GLOBALS
    /\ freq = NoFeedback
    /\ fenv = NoFeedbackEnv
    /\ fresp = NoFeedbackResponse
    /\ feedback_log = ""

\* Neither service has a request in hand.
Idle == req = NoRequest /\ rreq = NoRender /\ freq = NoFeedback

\* One /fetch request, handled from its arrival to its response.  The
\* server is idle: the previous request's data has been discarded.
Fetch(r, e) ==
    /\ Idle
    /\ UNCHANGED <<rvars, fbvars>>
    /\ req' = r
    /\ env' = e
    /\ LET out == fetch(r, e)
       IN  resp' = out.resp /\ sent' = out.sent

\* The response has gone out: nothing of the request is kept.
Deliver ==
    /\ ~Idle
    /\ req' = NoRequest
    /\ env' = NoEnv
    /\ resp' = NoResponse
    /\ sent' = <<>>
    /\ rreq' = NoRender
    /\ renv' = NoRenderEnv
    /\ rresp' = NoRenderResponse
    /\ ctx' = NoCtx
    /\ events' = <<>>
    /\ freq' = NoFeedback
    /\ fenv' = NoFeedbackEnv
    /\ fresp' = NoFeedbackResponse
    /\ UNCHANGED <<log, status_file, insecure_env, feedback_log>>

\* One POST /feedback request, handled from its arrival to its response.
Feedback(r, e) ==
    /\ Idle
    /\ CountLines(feedback_log) < MaxFeedback
    /\ UNCHANGED <<gwvars, rvars>>
    /\ freq' = r
    /\ fenv' = e
    /\ LET out == feedback(r, e)
       IN  /\ fresp' = out.resp
           /\ feedback_log' = feedback_log \o out.written

\* One POST /render request, handled from its arrival to its response.
RenderPost(r, e) ==
    /\ Idle
    /\ Len(log) < MaxLog
    /\ r.route = "/render"
    /\ UNCHANGED <<gwvars, fbvars>>
    /\ rreq' = r
    /\ renv' = e
    /\ LET out == render_page_post(r, e, insecure_env)
       IN  /\ insecure_env' = out.globals
           /\ rresp' = out.resp
           /\ ctx' = out.ctx
           /\ events' = out.events
           /\ log' = log \o out.log
           /\ status_file' = status_file \o out.marks

\* One POST /render/json request.
RenderPostJson(r, e) ==
    /\ Idle
    /\ Len(log) < MaxLog
    /\ r.route = "/render/json"
    /\ UNCHANGED <<gwvars, fbvars>>
    /\ rreq' = r
    /\ renv' = e
    /\ LET out == render_page_post_json(r, e, insecure_env)
       IN  /\ insecure_env' = out.globals
           /\ rresp' = out.resp
           /\ ctx' = out.ctx
           /\ events' = out.events
           /\ log' = log \o out.log
           /\ status_file' = status_file \o out.marks

FetchNext ==
    \/ \E r \in FetchRequests, e \in FetchEnvs : Fetch(r, e)
    \/ Deliver
PolicyNext ==
    \/ \E r \in PolicyRequests, e \in PolicyEnvs : Fetch(r, e)
    \/ Deliver
HtmlNext ==
    \/ \E r \in HtmlRequests, e \in HtmlEnvs : Fetch(r, e)
    \/ Deliver

RenderNext ==
    \/ \E r \in RenderRequests, e \in RenderEnvs : RenderPost(r, e)
    \/ \E r \in RenderRequests, e \in RenderEnvs : RenderPostJson(r, e)
    \/ Deliver
ImageNext ==
    \/ \E r \in ImageRequests, e \in ImageEnvs : RenderPost(r, e)
    \/ \E r \in ImageRequests, e \in ImageEnvs : RenderPostJson(r, e)
    \/ Deliver

FeedbackNext ==
    \/ \E r \in FeedbackRequests, e \in FeedbackEnvs : Feedback(r, e)
    \/ Deliver

\* Both services, one request after another.
IsolationNext ==
    \/ \E r \in IsolationFetches, e \in IsolationFetchEnvs : Fetch(r, e)
    \/ \E r \in IsolationRequests, e \in RenderEnvs : RenderPost(r, e)
    \/ \E r \in IsolationRequests, e \in RenderEnvs : RenderPostJson(r, e)
    \/ Deliver

FetchSpec == Init /\ [][FetchNext]_vars
PolicySpec == Init /\ [][PolicyNext]_vars
HtmlSpec == Init /\ [][HtmlNext]_vars
RenderSpec == Init /\ [][RenderNext]_vars
ImageSpec == Init /\ [][ImageNext]_vars
IsolationSpec == Init /\ [][IsolationNext]_vars
FeedbackSpec == Init /\ [][FeedbackNext]_vars

(***************************************************************************)
(* Properties of the Gateway                                               *)
(***************************************************************************)
\* A GET or POST /fetch request has been handled.
FetchHandled == req # NoRequest /\ req.method \in {"GET", "POST"}

\* The request names its target by the url parameter (no sub-path).
ByUrl == FetchHandled /\ req.subpath = None /\ Truthy(req.url)

\* The url parameter as the caller meant it: trimmed and decoded.
NamedUrl == [req.url EXCEPT !.ws = FALSE, !.pct = FALSE]
NamedHost == lower(NamedUrl.host)
NamedSchemeOk == lower(NamedUrl.scheme) \in {"http", "https"}

\* 127.0.0.0/8, 10.0.0.0/8, 172.16.0.0/12 and 192.168.0.0/16 as ranges.
InPrivateRange(ip) ==
    /\ ip.v = 4
    /\ \/ ip.o[1] = 127
       \/ ip.o[1] = 10
       \/ ip.o[1] = 172 /\ ip.o[2] \in 16..31
       \/ ip.o[1] = 192 /\ ip.o[2] = 168

HostNotAllowed == resp.status = 404 /\ resp.body = <<"{\"error\": \"Host not allowed\"}">>

\* C1: a request whose target hostname is not in the allow-list and whose
\* addresses all lie outside the private ranges is answered 403/404 and
\* causes no outbound request.
C1_PublicTargetRejected ==
    ( /\ ByUrl
      /\ NamedSchemeOk
      /\ NamedUrl.host # ""
      /\ NamedHost \notin ALLOWED_HOSTNAMES
      /\ resolve_hostname(NamedHost, env) # {}
      /\ \A ip \in resolve_hostname(NamedHost, env) : ~InPrivateRange(ip) )
    => (resp.status \in {403, 404} /\ sent = <<>>)

\* The target the validation of lines 150-157 is applied to, when the
\* handler gets there.
Validated == FetchHandled /\ DetermineTarget(req).kind = "target"
             /\ ValidTarget(DetermineTarget(req).url)
TargetHost == UrlHostname(DetermineTarget(req).url)

\* C2: the verdict is "allow" exactly when the target's hostname is in the
\* allow-list, or it resolves to at least one address and every address is
\* in a private range; otherwise the request is rejected with 404 and
\* nothing is sent.
C2_VerdictMatchesPolicy ==
    Validated =>
        LET ips == resolve_hostname(TargetHost, env)
            allow == \/ TargetHost \in ALLOWED_HOSTNAMES
                     \/ ips # {} /\ \A ip \in ips : InPrivateRange(ip)
        IN  /\ allow => (sent # <<>> /\ ~HostNotAllowed)
            /\ ~allow => (HostNotAllowed /\ sent = <<>>)

\* A name outside the allow-list whose two addresses sit on the edges of
\* two private networks was let through.
C2_Witness ==
    /\ Validated
    /\ TargetHost = "intra.corp"
    /\ env.ips = {Ip4(172, 31, 255, 255), Ip4(192, 168, 255, 255)}
    /\ sent # <<>>

\* C3: a url naming the admin service by its IP or by localhost, with the
\* admin port or none, is rewritten to the internal name before the check,
\* so the check and the outbound request use the rewritten host; any other
\* url is left unrewritten.
C3_AdminRewrite ==
    (ByUrl /\ NamedSchemeOk /\ NamedUrl.host # "") =>
        LET names == /\ NamedHost \in {"109.205.181.210", "localhost"}
                     /\ NamedUrl.port \in {"", "9000"}
        IN  /\ names =>
                /\ sent # <<>> <=> (env.ips # {} /\ \A ip \in env.ips : InPrivateRange(ip))
                /\ sent # <<>> => sent[1].host = "admin_api"
            /\ (~names /\ sent # <<>>) => sent[1].host = NamedHost

\* C4: a malformed target (a scheme other than http/https, or no hostname)
\* and a request without url and sub-path are answered 400, and nothing is
\* sent.
C4_MalformedIs400 ==
    /\ (FetchHandled /\ req.subpath = None /\ ~Truthy(req.url))
            => (resp.status = 400 /\ sent = <<>>)
    /\ (ByUrl /\ (~NamedSchemeOk \/ NamedUrl.host = ""))
            => (resp.status = 400 /\ sent = <<>>)

CorsNames == {"Access-Control-Allow-Origin", "Access-Control-Allow-Methods",
              "Access-Control-Allow-Headers"}
DiagnosticNames == {"X-Proxy-Status", "X-Proxy-Original-URL", "X-Proxy-Final-URL"}

\* The response relays an answer of the upstream server.
Relayed == FetchHandled /\ sent # <<>> /\ ~env.up.fail

\* C5 as stated: every /fetch response carries the CORS headers and the
\* proxy-diagnostic headers.
C5_HeadersOnEveryResponse ==
    req # NoRequest => (CorsNames \cup DiagnosticNames) \subseteq DOMAIN resp.headers

\* C5 as amended: a relayed response carries all six headers, whatever the
\* upstream status and content type; the OPTIONS preflight carries the CORS
\* headers only; the Gateway's own error responses carry neither.
C5_HeadersOnRelayed ==
    /\ Relayed => (CorsNames \cup DiagnosticNames) \subseteq DOMAIN resp.headers
    /\ (req # NoRequest /\ req.method = "OPTIONS") =>
            /\ CorsNames \subseteq DOMAIN resp.headers
            /\ DiagnosticNames \cap DOMAIN resp.headers = {}
    /\ (FetchHandled /\ ~Relayed) =>
            (CorsNames \cup DiagnosticNames) \cap DOMAIN resp.headers = {}

\* An upstream 404 with an HTML body, reached through a redirect, was relayed.
C5_Witness ==
    /\ Relayed
    /\ resp.status = 404
    /\ Len(sent) = 2
    /\ resp.headers["Content-Type"] = "Text/HTML; charset=utf-8"
    /\ resp.headers["X-Proxy-Status"] = "proxied"

\* The token is a <base ...> tag, an opening <head ...> tag.
IsBase(t) == Len(t) > 5 /\ lower(SubSeq(t, 1, 5)) = "<base" /\ ~IsWordChar(SubSeq(t, 6, 6))
IsHead(t) == Len(t) > 5 /\ lower(SubSeq(t, 1, 5)) = "<head" /\ ~IsWordChar(SubSeq(t, 6, 6))
CountBase(text) == Cardinality({i \in 1..Len(text) : IsBase(text[i])})
HasHead(text) == \E i \in 1..Len(text) : IsHead(text[i])
FirstHead(text) == CHOOSE i \in 1..Len(text) :
                      IsHead(text[i]) /\ \A j \in 1..(i - 1) : ~IsHead(text[j])
MentionsOnload(text) == \E i \in 1..Len(text) : StrIn("window.onload", lower(text[i]))

\* A permitted target answered with an HTML body, which was relayed.
HtmlRelayed == Relayed /\ StrIn("text/html", lower(resp.headers["Content-Type"]))

\* C6 as stated: the returned body of every HTML response holds exactly one
\* <base> tag, immediately after the opening <head> tag.
C6_ExactlyOneBase ==
    HtmlRelayed =>
        /\ CountBase(resp.body) = 1
        /\ HasHead(resp.body)
        /\ FirstHead(resp.body) < Len(resp.body)
        /\ IsBase(resp.body[FirstHead(resp.body) + 1])

\* C6 as amended: the rewrite adds at most one <base> tag and only to a body
\* with an opening <head> tag.  For a body without a window.onload script
\* (nothing is deleted from it): with a <head> tag the returned body has one
\* <base> tag more than the upstream body, the tag of line 198, immediately
\* after the first opening <head> tag; without one it has as many as before.
C6_OneBaseAfterFirstHead ==
    HtmlRelayed =>
        LET up == env.up.body
            out == resp.body
        IN  /\ CountBase(out) <= CountBase(up) + 1
            /\ ~HasHead(up) => CountBase(out) <= CountBase(up)
            /\ (HasHead(up) /\ ~MentionsOnload(up)) =>
                    /\ CountBase(out) = CountBase(up) + 1
                    /\ HasHead(out)
                    /\ FirstHead(out) < Len(out)
                    /\ out[FirstHead(out) + 1] = "<base href=\"/fetch/\" />"
            /\ (~HasHead(up) /\ ~MentionsOnload(up)) => CountBase(out) = CountBase(up)

\* A body with two <head> tags and a <base> tag of its own came back with
\* the injected tag after the first <head> and its own tag kept.
C6_Witness ==
    /\ HtmlRelayed
    /\ env.up.body = <<"<HEAD lang=\"en\">", "<base href=\"/x/\">", "<head>">>
    /\ resp.body = <<"<HEAD lang=\"en\">", "<base href=\"/fetch/\" />",
                     "<base href=\"/x/\">", "<head>">>

(***************************************************************************)
(* Properties of the Render Service                                        *)
(***************************************************************************)
\* A render request has been handled; a step of the service handles one.
RenderHandled == rreq # NoRender
RenderStep == rreq = NoRender /\ rreq' # NoRender

\* The fixed context of lines 87-93, with no image URL submitted.
FixedContext ==
    [username    |-> "guest_user",
     image_url   |-> "https://example.org/sample.jpg",
     server_time |-> renv.clock,
     notice      |-> "This is an intentionally vulnerable sandbox for CTF use."]

\* C7: for a template T of at most 64 KiB that evaluates without error,
\* POST /render/json with the JSON body {"template": T} returns 200 and
\* rendered_html is the evaluation of T, not of the whole body.
C7_JsonRendersTemplate ==
    ( /\ RenderHandled
      /\ rreq.route = "/render/json"
      /\ rreq.kind = "json"
      /\ ByteLen(rreq.template) <= 65536
      /\ jinja_render(rreq.template, FixedContext, NO_GLOBALS).ok )
    => /\ rresp.status = 200
       /\ rresp.rendered = jinja_render(rreq.template, FixedContext, NO_GLOBALS).text

\* C8: a render request, on either route, whose rendered output contains
\* the marker appends exactly one record <client-ip> <timestamp> to the
\* status file; one whose output does not contain it leaves the file alone.
C8_MarkerRecorded ==
    [][ (RenderStep /\ rresp'.status = 200) =>
            IF Contains(rresp'.rendered, "FLAG{non_root_rce_obtained}")
            THEN status_file' = Append(status_file,
                                       [addr |-> rreq'.remote_addr, time |-> renv'.clock])
            ELSE status_file' = status_file ]_vars

\* C9 as stated: every render request, rejected ones included, adds one
\* line to the submissions log.
C9_EverySubmissionLogged ==
    [][ RenderStep => Len(log') = Len(log) + 1 ]_vars

\* C9 as amended: a request whose submitted text is at most 64 KiB adds
\* exactly one line to the log, and adds it before the template is
\* evaluated, whether the evaluation then succeeds or fails with 400; a
\* request whose text exceeds 64 KiB is answered 413 before anything is
\* logged or evaluated, and leaves the log as it was.
C9_LoggedBeforeEvaluation ==
    [][ RenderStep =>
            /\ rresp'.status = 413 <=> ByteLen(RawTemplate(rreq')) > 65536
            /\ rresp'.status = 413 => (log' = log /\ events' = <<>>)
            /\ rresp'.status # 413 =>
                 /\ rresp'.status \in {200, 400}
                 /\ Len(log') = Len(log) + 1
                 /\ SubSeq(log', 1, Len(log)) = log
                 /\ log'[Len(log')].addr = rreq'.remote_addr
                 /\ Len(events') >= 2
                 /\ events'[1] = "log"
                 /\ events'[2] = "evaluate" ]_vars

\* A template that fails to evaluate was answered 400 and is the second
\* line of the log.
C9_Witness ==
    /\ RenderHandled
    /\ rresp.status = 400
    /\ rreq.template = <<Lit("{{ 1/0 }}")>>
    /\ rreq.kind = "form"
    /\ Len(log) = 2
    /\ log[2].text = <<Lit("{{ 1/0 }}")>>
    /\ events = <<"log", "evaluate">>

\* The submitted image URL names a host of the ban-list (host names compare
\* without case; an IPv6 literal is written in brackets).
BannedImageHost ==
    /\ RenderHandled
    /\ Truthy(rreq.image_url)
    /\ lower(rreq.image_url.host) \in {"localhost", "127.0.0.1", "[::1]"}

\* C10: an image URL whose hostname is in the ban-list, whatever its scheme,
\* is dropped: the context's image_url is the default URL, not the submitted
\* one, and the request is not failed for it (the templates submitted here
\* all evaluate without error, so the answer is 200).
C10_BannedImageDropped ==
    BannedImageHost =>
        /\ ctx.image_url = "https://example.org/sample.jpg"
        /\ ctx.image_url # UrlText(rreq.image_url)
        /\ rresp.status = 200

\* An https URL for LOCALHOST in a form field was dropped, and the template
\* that prints image_url printed the default.
C10_Witness ==
    /\ RenderHandled
    /\ rreq.kind = "form"
    /\ rreq.image_url = Url("HTTPS", "LOCALHOST", "", "/a.png")
    /\ rreq.template = <<Lit("{{ image_url }}"), Lit("\n")>>
    /\ rresp.status = 200
    /\ rresp.rendered = <<Lit("https://example.org/sample.jpg")>>

(***************************************************************************)
(* Isolation of requests                                                   *)
(***************************************************************************)
\* The response the handled render request gets from a process that has
\* handled no request before it, the environment answering the same.
FirstRenderResponse ==
    IF rreq.route = "/render"
    THEN render_page_post(rreq, renv, NO_GLOBALS).resp
    ELSE render_page_post_json(rreq, renv, NO_GLOBALS).resp

\* C11: the response to a request is determined by the request, the
\* configuration and the environment's answers: after any history of
\* earlier requests, failed ones included, it is the response the same
\* request gets as the first request of the process.
C11_RequestsIsolated ==
    /\ req # NoRequest => resp = fetch(req, env).resp
    /\ RenderHandled => rresp = FirstRenderResponse

(***************************************************************************)
(* Properties of POST /feedback                                            *)
(***************************************************************************)
FeedbackStep == freq = NoFeedback /\ freq' # NoFeedback

\* The field is there and holds a character that is not whitespace.
NonBlank(field) ==
    /\ field # None
    /\ \E i \in 1..Len(field) : SubSeq(field, i, i) \notin {" ", "\t", "\n", "\r", "\f"}

\* C12: the request appends exactly one line to the feedback log and is
\* answered with a redirect exactly when the field is non-empty after
\* trimming and the write succeeds; a missing or blank field is answered
\* 400, a failed write 500, and both leave the log as it was.
C12_FeedbackAppendsOneLine ==
    [][ FeedbackStep =>
            /\ (NonBlank(freq'.feedback) /\ fenv'.write_ok) =>
                 /\ fresp'.status = 303
                 /\ fresp'.location = "/"
                 /\ Len(feedback_log') > Len(feedback_log)
                 /\ SubSeq(feedback_log', 1, Len(feedback_log)) = feedback_log
                 /\ CountLines(feedback_log') = CountLines(feedback_log) + 1
                 /\ SubSeq(feedback_log', Len(feedback_log'), Len(feedback_log')) = "\n"
            /\ ~NonBlank(freq'.feedback) =>
                 (fresp'.status = 400 /\ feedback_log' = feedback_log)
            /\ (NonBlank(freq'.feedback) /\ ~fenv'.write_ok) =>
                 (fresp'.status = 500 /\ feedback_log' = feedback_log) ]_vars

\* A text with line breaks inside and around it went to the log as the
\* second line, and the caller was redirected.
C12_Witness ==
    /\ freq # NoFeedback
    /\ freq.feedback = "\r\nx\ry\n"
    /\ fresp.status = 303
    /\ CountLines(feedback_log) = 2

(***************************************************************************)
(* Outbound requests of the Gateway                                        *)
(***************************************************************************)
\* The host would pass the validation if a request named it directly.
SatisfiesPolicy(host) ==
    \/ host \in {"res.cloudinary.com", "picsum.photos", "109.205.181.210"}
    \/ LET ips == resolve_hostname(host, env)
       IN  ips # {} /\ \A ip \in ips : InPrivateRange(ip)

\* C13: every outbound request issued while serving a /fetch request, the
\* ones that follow a redirect included, goes to a host that satisfies the
\* validation policy.
C13_EveryHopPermitted ==
    FetchHandled => \A i \in 1..Len(sent) : SatisfiesPolicy(sent[i].host)

====
